---------------------------- MODULE Spec2Model ----------------------------
(***************************************************************************)
(* Package semantic (shoenig/semantic): parsing, construction, rendering   *)
(* and precedence ordering of SemVer 2.0 tags.                             *)
(*                                                                         *)
(* The repository carries two revisions of the package source:             *)
(*   src/tag.go            - Tag.Less built on prAlessB                    *)
(*   src/unnamed/part_000  - Tag.Less built on cmpPreRelease / cmpChunks,  *)
(*                           plus Tag.Equal                                *)
(* New*, normalize, Parse, number, String and BySemver are the same text   *)
(* in both.  The variable impl records which revision is compiled.         *)
(*                                                                         *)
(* Go strings are modelled as sequences of one-character strings, compared *)
(* by byte value.  A Go panic is modelled as an outcome record with        *)
(* panic = TRUE, propagated through every caller as the runtime unwinds.   *)
(***************************************************************************)
EXTENDS Integers, Sequences, FiniteSets, TLC

VARIABLES
    impl,       \* which revision of the package is compiled
    pc,         \* what the driver did last
    input,      \* the string handed to Parse
    out,        \* outcome of Parse(input)
    rendered,   \* out.val.tag.String()
    reparsed,   \* outcome of Parse(rendered)
    a, b,       \* operands of Tag.Less / Tag.Equal
    ab, ba,     \* outcomes of a.Less(b) and b.Less(a)
    eq,         \* a.Equal(b)
    ca, cb,     \* operands of cmpChunk
    cab, cba,   \* outcomes of cmpChunk(ca, cb) and cmpChunk(cb, ca)
    tags,       \* the slice handed to sort.Sort(BySemver(tags))
    sorted,     \* outcome of the sort
    argPre,     \* the preRelease argument handed to a constructor
    argBm,      \* the buildMetadata argument handed to a constructor
    made        \* the Tag the constructor returned

vars == <<impl, pc, input, out, rendered, reparsed, a, b, ab, ba, eq,
          ca, cb, cab, cba, tags, sorted, argPre, argBm, made>>

---------------------------------------------------------------------------
(* Bounds of the model *)

\* major / minor / patch of constructed tags range over 0..MaxVer
MaxVer == 1
\* longest major / minor / patch digit string typed into Parse
MaxDigits == 2
\* most dot-separated identifiers in a constructed pre-release
MaxChunks == 2
\* longest slice handed to sort.Sort
MaxTags == 3
\* longest preRelease / buildMetadata argument handed to a constructor
MaxArg == 3

---------------------------------------------------------------------------
(* Bytes and strings *)

ord ==
    (" " :> 32) @@ ("+" :> 43) @@ ("-" :> 45) @@ ("." :> 46) @@
    ("0" :> 48) @@ ("1" :> 49) @@ ("2" :> 50) @@ ("3" :> 51) @@ ("4" :> 52) @@
    ("5" :> 53) @@ ("6" :> 54) @@ ("7" :> 55) @@ ("8" :> 56) @@ ("9" :> 57) @@
    ("V" :> 86) @@ ("Z" :> 90) @@ ("_" :> 95) @@
    ("a" :> 97) @@ ("b" :> 98) @@ ("c" :> 99) @@ ("d" :> 100) @@ ("e" :> 101) @@
    ("f" :> 102) @@ ("h" :> 104) @@
    ("l" :> 108) @@ ("p" :> 112) @@ ("r" :> 114) @@ ("t" :> 116) @@
    ("v" :> 118) @@ ("x" :> 120) @@ ("y" :> 121)

Alphabet == DOMAIN ord

\* regexp classes \d, [1-9], [a-zA-Z-], [0-9a-zA-Z-]
ClassDigit == {ch \in Alphabet : ord[ch] >= 48 /\ ord[ch] <= 57}
ClassNonZero == {ch \in Alphabet : ord[ch] >= 49 /\ ord[ch] <= 57}
ClassLetterDash ==
    {ch \in Alphabet : \/ (ord[ch] >= 97 /\ ord[ch] <= 122)
                       \/ (ord[ch] >= 65 /\ ord[ch] <= 90)
                       \/ ch = "-"}
ClassAlnumDash == ClassDigit \cup ClassLetterDash

\* Go's s < t on strings: bytewise lexicographic
RECURSIVE StrLess(_, _)
StrLess(s, t) ==
    IF t = <<>> THEN FALSE
    ELSE IF s = <<>> THEN TRUE
    ELSE IF ord[Head(s)] < ord[Head(t)] THEN TRUE
    ELSE IF ord[Head(s)] > ord[Head(t)] THEN FALSE
    ELSE StrLess(Tail(s), Tail(t))

\* strings.TrimPrefix(s, p) for a one-byte prefix p
TrimPrefix(s, p) ==
    IF s # <<>> /\ Head(s) = p THEN Tail(s) ELSE s

\* strings.Split(s, sep) for a one-byte separator: always at least one part
RECURSIVE SplitFrom(_, _, _)
SplitFrom(s, sep, cur) ==
    IF s = <<>> THEN <<cur>>
    ELSE IF Head(s) = sep THEN <<cur>> \o SplitFrom(Tail(s), sep, <<>>)
    ELSE SplitFrom(Tail(s), sep, Append(cur, Head(s)))

Split(s, sep) == SplitFrom(s, sep, <<>>)

\* the inverse used to build inputs: parts joined by sep
RECURSIVE Join(_, _)
Join(parts, sep) ==
    IF parts = <<>> THEN <<>>
    ELSE IF Len(parts) = 1 THEN parts[1]
    ELSE parts[1] \o <<sep>> \o Join(Tail(parts), sep)

---------------------------------------------------------------------------
(* Outcomes: a returned value, or a panic *)

Ret(v) == [panic |-> FALSE, val |-> v]
Panic(v) == [panic |-> TRUE, val |-> v]

---------------------------------------------------------------------------
(* strconv.Atoi and %d on the host int (64 bits) *)

DigitVal(ch) == ord[ch] - 48

\* math.MaxInt64 as a digit string
MaxIntDigits ==
    <<"9","2","2","3","3","7","2","0","3","6","8","5","4","7","7","5","8","0","7">>

RECURSIVE StripZeros(_)
StripZeros(s) ==
    IF Len(s) > 1 /\ Head(s) = "0" THEN StripZeros(Tail(s)) ELSE s

\* the digit string denotes a value above math.MaxInt64
OutOfRange(s) ==
    LET z == StripZeros(s) IN
        \/ Len(z) > Len(MaxIntDigits)
        \/ (Len(z) = Len(MaxIntDigits) /\ StrLess(MaxIntDigits, z))

RECURSIVE Horner(_, _)
Horner(s, acc) ==
    IF s = <<>> THEN acc ELSE Horner(Tail(s), acc * 10 + DigitVal(Head(s)))

\* strconv.Atoi on an unsigned digit string: err on a syntax or range error
Atoi(s) ==
    IF s = <<>> \/ \E k \in 1..Len(s) : s[k] \notin ClassDigit
        THEN [err |-> TRUE, n |-> 0]
    ELSE IF OutOfRange(s)
        THEN [err |-> TRUE, n |-> 0]
    ELSE [err |-> FALSE, n |-> Horner(s, 0)]

\* fmt's %d of a non-negative int
RECURSIVE FormatInt(_)
FormatInt(n) ==
    LET d == <<"0","1","2","3","4","5","6","7","8","9">>[(n % 10) + 1] IN
        IF n < 10 THEN <<d>> ELSE Append(FormatInt(n \div 10), d)


---------------------------------------------------------------------------
(* type Tag, constructors, Equal, String *)

Tag(major, minor, patch, pre, bm) ==
    [Major |-> major, Minor |-> minor, Patch |-> patch,
     PreRelease |-> pre, BuildMetadata |-> bm]

\* var empty = Tag{}
empty == Tag(0, 0, 0, <<>>, <<>>)

\* normalize without its second TrimPrefix
normalize_dashOnly(s) == TrimPrefix(s, "-")

normalize(s) ==
    LET noDash == TrimPrefix(s, "-")
        noPlus == TrimPrefix(noDash, "+")
    IN  noPlus

New3(major, minor, patch, preRelease, buildMetadata) ==
    Tag(major, minor, patch, normalize(preRelease), normalize(buildMetadata))

New(major, minor, patch) == New3(major, minor, patch, <<>>, <<>>)

New2(major, minor, patch, preRelease) ==
    New3(major, minor, patch, preRelease, <<>>)

New4(major, minor, patch, buildMetadata) ==
    New3(major, minor, patch, <<>>, buildMetadata)

Equal(t, o) ==
    IF t.Major # o.Major THEN FALSE
    ELSE IF t.Minor # o.Minor THEN FALSE
    ELSE IF t.Patch # o.Patch THEN FALSE
    ELSE IF t.PreRelease # o.PreRelease THEN FALSE
    ELSE IF t.BuildMetadata # o.BuildMetadata THEN FALSE
    ELSE TRUE

\* a rendering that drops the pre-release '-' section when build metadata is present
String_dropsPre(t) ==
    LET base == <<"v">> \o FormatInt(t.Major) \o <<".">> \o FormatInt(t.Minor)
                \o <<".">> \o FormatInt(t.Patch)
    IN  IF t.BuildMetadata = <<>> /\ t.PreRelease = <<>> THEN base
        ELSE IF t.BuildMetadata = <<>> THEN base \o <<"-">> \o t.PreRelease
        ELSE base \o <<"+">> \o t.BuildMetadata

String(t) ==
    LET base == <<"v">> \o FormatInt(t.Major) \o <<".">> \o FormatInt(t.Minor)
                \o <<".">> \o FormatInt(t.Patch)
    IN  IF t.PreRelease = <<>> /\ t.BuildMetadata = <<>> THEN base
        ELSE IF t.BuildMetadata = <<>> THEN base \o <<"-">> \o t.PreRelease
        ELSE IF t.PreRelease = <<>> THEN base \o <<"+">> \o t.BuildMetadata
        ELSE base \o <<"-">> \o t.PreRelease \o <<"+">> \o t.BuildMetadata

Base(t) == New(t.Major, t.Minor, t.Patch)

IsBase(t) == t.PreRelease = <<>>

---------------------------------------------------------------------------
(* The comparator of src/unnamed/part_000 *)

\* numberRe = ^[[:digit:]]+$
isNumeric(s) == s # <<>> /\ \A k \in 1..Len(s) : s[k] \in ClassDigit

cmpStrings(x, y) ==
    IF StrLess(x, y) THEN -1
    ELSE IF StrLess(y, x) THEN 1
    ELSE 0

\* panics when either strconv.Atoi fails
cmpNumeric(x, y) ==
    LET aNum == Atoi(x)
        bNum == Atoi(y)
    IN  IF aNum.err THEN Panic(0)
        ELSE IF bNum.err THEN Panic(0)
        ELSE IF aNum.n < bNum.n THEN Ret(-1)
        ELSE IF aNum.n > bNum.n THEN Ret(1)
        ELSE Ret(0)

cmpChunk(x, y) ==
    LET aIsNumber == isNumeric(x)
        bIsNumber == isNumeric(y)
    IN  IF aIsNumber /\ bIsNumber THEN cmpNumeric(x, y)
        ELSE IF ~aIsNumber /\ ~bIsNumber THEN Ret(cmpStrings(x, y))
        ELSE IF aIsNumber /\ ~bIsNumber THEN Ret(-1)
        ELSE Ret(1)

min(x, y) == IF x < y THEN x ELSE y

\* the loop of cmpChunks from index i (1-based) on
RECURSIVE cmpChunksFrom(_, _, _)
cmpChunksFrom(A, B, i) ==
    IF i > min(Len(A), Len(B)) THEN Ret(Len(A) < Len(B))
    ELSE LET cmp == cmpChunk(A[i], B[i]) IN
        IF cmp.panic THEN Panic(FALSE)
        ELSE IF cmp.val = 0 THEN cmpChunksFrom(A, B, i + 1)
        ELSE IF cmp.val = -1 THEN Ret(TRUE)
        ELSE Ret(FALSE)

cmpChunks(A, B) == cmpChunksFrom(A, B, 1)

cmpPreRelease(x, y) ==
    IF x = <<>> THEN Ret(FALSE)
    ELSE IF y = <<>> THEN Ret(TRUE)
    ELSE cmpChunks(Split(x, "."), Split(y, "."))

\* Tag.Less of src/unnamed/part_000
Less(t, o) ==
    IF t.Major < o.Major THEN Ret(TRUE)
    ELSE IF t.Major > o.Major THEN Ret(FALSE)
    ELSE IF t.Minor < o.Minor THEN Ret(TRUE)
    ELSE IF t.Minor > o.Minor THEN Ret(FALSE)
    ELSE IF t.Patch < o.Patch THEN Ret(TRUE)
    ELSE IF t.Patch > o.Patch THEN Ret(FALSE)
    ELSE cmpPreRelease(t.PreRelease, o.PreRelease)

---------------------------------------------------------------------------
(* The comparator of src/tag.go *)

prAlessB(x, y) ==
    IF x = <<>> THEN FALSE
    ELSE IF y = <<>> THEN TRUE
    ELSE StrLess(x, y)

\* Tag.Less of src/tag.go: prAlessB is consulted after every equal level
Less_prAlessB(t, o) ==
    IF t.Major < o.Major THEN Ret(TRUE)
    ELSE IF t.Major > o.Major THEN Ret(FALSE)
    ELSE IF prAlessB(t.PreRelease, o.PreRelease) THEN Ret(TRUE)
    ELSE IF t.Minor < o.Minor THEN Ret(TRUE)
    ELSE IF t.Minor > o.Minor THEN Ret(FALSE)
    ELSE IF prAlessB(t.PreRelease, o.PreRelease) THEN Ret(TRUE)
    ELSE IF t.Patch < o.Patch THEN Ret(TRUE)
    ELSE IF t.Patch > o.Patch THEN Ret(FALSE)
    ELSE IF prAlessB(t.PreRelease, o.PreRelease) THEN Ret(TRUE)
    ELSE Ret(FALSE)

\* t.Less(o) in the revision im
TagLess(im, t, o) ==
    IF im = "tag.go" THEN Less_prAlessB(t, o) ELSE Less(t, o)

---------------------------------------------------------------------------
(* BySemver and sort.Sort *)

\* BySemver.Len
BySemverLen(ts) == Len(ts)

\* BySemver.Swap
BySemverSwap(ts, x, y) == [ts EXCEPT ![x] = ts[y], ![y] = ts[x]]

\* BySemver.Less (indices 1-based here)
BySemverLess(im, ts, x, y) == TagLess(im, ts[x], ts[y])

\* sort.Sort on a slice of at most 12 elements is insertionSort(data, 0, n):
\*   for i := a + 1; i < b; i++ {
\*       for j := i; j > a && data.Less(j, j-1); j-- { data.Swap(j, j-1) } }
RECURSIVE insertionSortFrom(_, _, _, _)
insertionSortFrom(im, ts, i, j) ==
    IF i > BySemverLen(ts) THEN Ret(ts)
    ELSE IF j > 1 THEN
        LET lt == BySemverLess(im, ts, j, j - 1) IN
            IF lt.panic THEN Panic(ts)
            ELSE IF lt.val
                THEN insertionSortFrom(im, BySemverSwap(ts, j, j - 1), i, j - 1)
            ELSE insertionSortFrom(im, ts, i + 1, i + 1)
    ELSE insertionSortFrom(im, ts, i + 1, i + 1)

SortBySemver(im, ts) == insertionSortFrom(im, ts, 2, 2)

---------------------------------------------------------------------------
(* semverRe and Parse *)

Lit(ch) == [t |-> "lit", c |-> ch]
Cls(S) == [t |-> "cls", s |-> S]
Cat(rs) == [t |-> "cat", rs |-> rs]
Alt(rs) == [t |-> "alt", rs |-> rs]
Star(r) == [t |-> "star", r |-> r]
Opt(r) == [t |-> "opt", r |-> r]
Grp(name, r) == [t |-> "grp", n |-> name, r |-> r]

\* 0|[1-9]\d*
ReNum == Alt(<<Lit("0"), Cat(<<Cls(ClassNonZero), Star(Cls(ClassDigit))>>)>>)

\* 0|[1-9]\d*|\d*[a-zA-Z-][0-9a-zA-Z-]*
RePrId ==
    Alt(<<Lit("0"),
          Cat(<<Cls(ClassNonZero), Star(Cls(ClassDigit))>>),
          Cat(<<Star(Cls(ClassDigit)), Cls(ClassLetterDash),
                Star(Cls(ClassAlnumDash))>>)>>)

\* [0-9a-zA-Z-]+
ReBmId == Cat(<<Cls(ClassAlnumDash), Star(Cls(ClassAlnumDash))>>)

\* the pattern between ^ and $
semverRe ==
    Cat(<<Lit("v"),
          Grp("major", ReNum), Lit("."),
          Grp("minor", ReNum), Lit("."),
          Grp("patch", ReNum),
          Opt(Cat(<<Lit("-"),
                    Grp("pr", Cat(<<RePrId, Star(Cat(<<Lit("."), RePrId>>))>>))>>)),
          Opt(Cat(<<Lit("+"),
                    Grp("bm", Cat(<<ReBmId, Star(Cat(<<Lit("."), ReBmId>>))>>))>>))>>)

NoCaps == [major |-> <<>>, minor |-> <<>>, patch |-> <<>>, pr |-> <<>>, bm |-> <<>>]

\* every way r matches s from position i: the set of <<next position, captures>>
RECURSIVE Match(_, _, _, _)
Match(r, s, i, caps) ==
    CASE r.t = "lit" ->
            IF i <= Len(s) /\ s[i] = r.c THEN {<<i + 1, caps>>} ELSE {}
      [] r.t = "cls" ->
            IF i <= Len(s) /\ s[i] \in r.s THEN {<<i + 1, caps>>} ELSE {}
      [] r.t = "cat" ->
            IF r.rs = <<>> THEN {<<i, caps>>}
            ELSE UNION { Match(Cat(Tail(r.rs)), s, m[1], m[2]) :
                         m \in Match(Head(r.rs), s, i, caps) }
      [] r.t = "alt" ->
            UNION { Match(r.rs[k], s, i, caps) : k \in 1..Len(r.rs) }
      [] r.t = "star" ->
            {<<i, caps>>} \cup
            UNION { Match(r, s, m[1], m[2]) :
                    m \in {n \in Match(r.r, s, i, caps) : n[1] > i} }
      [] r.t = "opt" ->
            {<<i, caps>>} \cup Match(r.r, s, i, caps)
      [] r.t = "grp" ->
            { <<m[1], [m[2] EXCEPT ![r.n] = SubSeq(s, i, m[1] - 1)]>> :
              m \in Match(r.r, s, i, caps) }

\* the matches of ^...$ : from the first byte to the last
FullMatches(re, s) == { m \in Match(re, s, 1, NoCaps) : m[1] = Len(s) + 1 }

\* regexplus.FindNamedSubmatches: the named groups of the match, none without one
FindNamedSubmatches(re, s) ==
    LET ms == FullMatches(re, s) IN
        IF ms = {} THEN [exists |-> FALSE, groups |-> NoCaps]
        ELSE [exists |-> TRUE, groups |-> (CHOOSE m \in ms : TRUE)[2]]

\* panics when strconv.Atoi fails
number(s) ==
    LET n == Atoi(s) IN
        IF n.err THEN Panic(0) ELSE Ret(n.n)

ParseResult(tag, ok) == [tag |-> tag, ok |-> ok]

Parse(s) ==
    LET matches == FindNamedSubmatches(semverRe, s) IN
        IF ~matches.exists THEN Ret(ParseResult(empty, FALSE))
        ELSE LET major == number(matches.groups.major)
                 minor == number(matches.groups.minor)
                 patch == number(matches.groups.patch)
                 preRelease == matches.groups.pr
                 buildMetadata == matches.groups.bm
             IN  IF major.panic \/ minor.panic \/ patch.panic
                     THEN Panic(ParseResult(empty, FALSE))
                 ELSE Ret(ParseResult(Tag(major.val, minor.val, patch.val,
                                          preRelease, buildMetadata), TRUE))

---------------------------------------------------------------------------
(* Inputs *)

Impls == {"tag.go", "part_000"}

\* math.MaxInt64 + 1: the shortest digit string strconv.Atoi rejects
Huge == <<"9","2","2","3","3","7","2","0","3","6","8","5","4","7","7","5","8","0","8">>

\* every string over S of length 1..n
RECURSIVE StringsUpTo(_, _)
StringsUpTo(S, n) ==
    IF n = 0 THEN {}
    ELSE LET shorter == StringsUpTo(S, n - 1) IN
        { <<ch>> : ch \in S } \cup shorter
            \cup { Append(w, ch) : w \in shorter, ch \in S }

\* major / minor / patch as typed: leading zeros and the out-of-range string included
NumInputs == StringsUpTo({"0", "1"}, MaxDigits) \cup {Huge}

\* what may follow '-' in an input: identifiers the grammar takes and ones it refuses
PrInputs ==
    { <<"a","l","p","h","a">>, <<"0">>, <<"0","1">>, <<"1",".","a">>,
      <<"a","-","b">>, <<"a",".",".","b">>, <<"-","x">>, <<"0",".","2","0","1","9","0","2","2","7","0","0","0","0","5","1","-","2","7","9","3","6","f","6","d","9","0","f","9">> }

\* what may follow '+' in an input
BmInputs ==
    { <<"x">>, <<"0","0","1">>, <<"a",".","b">>, <<"a","+","b">> }

SuffixInputs ==
    {<<>>, <<"-">>, <<"+">>, <<" ">>, <<"_","b","e","t","a">>, <<"+","x","-","a","l","p","h","a">>, <<"-","a"," ">>}
        \cup { <<"-">> \o p : p \in PrInputs }
        \cup { <<"+">> \o m : m \in BmInputs }
        \cup { <<"-">> \o p \o <<"+">> \o m : p \in PrInputs, m \in {<<"x">>, <<"a","+","b">>} }

Cores == { Join(<<x, y, z>>, ".") : x \in NumInputs, y \in NumInputs, z \in NumInputs }

\* shapes with too few or too many components, and changed or extra leading bytes
OddCores ==
    { <<"v">>, <<"v","1">>, <<"v","1",".","2">>, <<"v","1",".","2",".","3",".","4">>,
      <<"v","1",".",".","2">>, <<"1",".","2",".","3">>, <<"V","1",".","2",".","3">>,
      <<" ","v","1",".","2",".","3">>, <<"v","v","1",".","2",".","3">>,
      <<"v","1",".","2",".","3">>, <<"v","0","0",".","0",".","0">>,
      <<"v","1","1","1",".","2","2","2",".","3","3","3">>,
      <<"v","1",".","2","_","3">> }

ParseInputs ==
    { <<"v">> \o core \o suf : core \in Cores, suf \in SuffixInputs }
        \cup { odd \o suf : odd \in OddCores, suf \in SuffixInputs }

Versions == 0..MaxVer

\* pre-release identifiers of constructed tags: numeric ones whose order differs
\* numerically and lexically, a non-numeric one, and one out of the int range
ChunkSample == { <<"2">>, <<"1","1">>, <<"a","l","p","h","a">>, Huge }

RECURSIVE ChunkSeqs(_)
ChunkSeqs(n) ==
    IF n = 0 THEN {<<>>}
    ELSE LET shorter == ChunkSeqs(n - 1) IN
        shorter \cup { Append(w, ch) : w \in shorter, ch \in ChunkSample }

\* the empty pre-release (a release) and every 1..MaxChunks identifiers joined by '.'
PreReleases == { Join(w, ".") : w \in ChunkSeqs(MaxChunks) }

BuildMetas == { <<>>, <<"x">> }

\* the pre-releases of the worked example, in its order
Chain ==
    << <<"a","l","p","h","a">>,
       <<"a","l","p","h","a",".","1">>,
       <<"a","l","p","h","a",".","b","e","t","a">>,
       <<"b","e","t","a">>,
       <<"b","e","t","a",".","2">>,
       <<"b","e","t","a",".","1","1">>,
       <<"r","c",".","1">>,
       <<>> >>

ChainTags == [k \in 1..Len(Chain) |-> New2(1, 1, 1, Chain[k])]

TagSample ==
    { New3(x, y, z, p, <<>>) : x \in Versions, y \in Versions, z \in Versions,
                               p \in PreReleases }
        \cup { ChainTags[k] : k \in 1..Len(Chain) }

\* the same tags, with and without build metadata
TagSampleBm ==
    { New3(t.Major, t.Minor, t.Patch, t.PreRelease, m) : t \in TagSample, m \in BuildMetas }

\* identifiers handed to cmpChunk
IdentSample ==
    { <<"1">>, <<"2">>, <<"1","0">>, <<"1","1">>, <<"9","9","9","9","9","9","9","9","9">>,
      <<"a","l","p","h","a">>, <<"b","e","t","a">>, <<"a","l","p","h","a","-","1">>,
      <<"r","c">>, <<"-">>, <<"1","a">>, <<"0","1">> }
        \cup {Huge}

\* tags handed to sort.Sort
SortSample ==
    { New3(1, y, 0, p, m) : y \in Versions,
                            p \in {<<>>, <<"2">>, <<"1","1">>, <<"a","l","p","h","a">>},
                            m \in {<<>>} }

RECURSIVE SeqsUpTo(_, _)
SeqsUpTo(S, n) ==
    IF n = 0 THEN {<<>>}
    ELSE LET shorter == SeqsUpTo(S, n - 1) IN
        shorter \cup { Append(w, x) : w \in shorter, x \in S }

SortInputs == SeqsUpTo(SortSample, MaxTags)

\* strings handed to Parse before their tags are compared: versions that differ
\* in each of major, minor and patch, pre-releases with numeric identifiers
\* (one of them out of the int range) and non-numeric ones, build metadata
\* present and absent
OrderCores ==
    { <<"0",".","0",".","0">>, <<"0",".","0",".","1">>, <<"0",".","1",".","0">>,
      <<"1",".","0",".","0">> }

OrderPres ==
    { <<>>, <<"-","a","l","p","h","a">>, <<"-","a","l","p","h","a",".","1">>,
      <<"-","0">>, <<"-","1">>, <<"-","2">>, <<"-","1","1">>,
      <<"-">> \o Huge, <<"-","a","l","p","h","a",".">> \o Huge }

OrderBms == { <<>>, <<"+","x">> }

OrderInputs ==
    { <<"v">> \o core \o pre \o bm : core \in OrderCores, pre \in OrderPres,
                                     bm \in OrderBms }
        \cup { <<"v","1",".","0",".","0","-","0","1">> }

\* preRelease / buildMetadata arguments of the constructors: every string of
\* separators and one other byte, up to MaxArg bytes
CtorArgs == {<<>>} \cup StringsUpTo({"-", "+", "x"}, MaxArg)

---------------------------------------------------------------------------
(* The driver: one library call at a time, then back to idle *)

NoParse == Ret(ParseResult(empty, FALSE))

Init ==
    /\ impl \in Impls
    /\ pc = "idle"
    /\ input = <<>>
    /\ out = NoParse
    /\ rendered = <<>>
    /\ reparsed = NoParse
    /\ a = empty
    /\ b = empty
    /\ ab = Ret(FALSE)
    /\ ba = Ret(FALSE)
    /\ eq = TRUE
    /\ ca = <<>>
    /\ cb = <<>>
    /\ cab = Ret(0)
    /\ cba = Ret(0)
    /\ tags = <<>>
    /\ sorted = Ret(<<>>)
    /\ argPre = <<>>
    /\ argBm = <<>>
    /\ made = empty

\* tag, ok := Parse(s)
DoParse(s) ==
    /\ pc = "idle"
    /\ pc' = "parsed"
    /\ input' = s
    /\ out' = Parse(s)
    /\ UNCHANGED <<impl, rendered, reparsed, a, b, ab, ba, eq, ca, cb, cab, cba,
                   tags, sorted, argPre, argBm, made>>

\* Parse(tag.String()) for the tag Parse just returned
DoRender ==
    /\ pc = "parsed"
    /\ ~out.panic
    /\ out.val.ok
    /\ pc' = "rendered"
    /\ rendered' = String(out.val.tag)
    /\ reparsed' = Parse(String(out.val.tag))
    /\ UNCHANGED <<impl, input, out, a, b, ab, ba, eq, ca, cb, cab, cba,
                   tags, sorted, argPre, argBm, made>>

\* x.Less(y), y.Less(x) and x.Equal(y)
DoCompare(x, y) ==
    /\ pc = "idle"
    /\ pc' = "compared"
    /\ a' = x
    /\ b' = y
    /\ ab' = TagLess(impl, x, y)
    /\ ba' = TagLess(impl, y, x)
    /\ eq' = Equal(x, y)
    /\ UNCHANGED <<impl, input, out, rendered, reparsed, ca, cb, cab, cba,
                   tags, sorted, argPre, argBm, made>>

\* cmpChunk(x, y) and cmpChunk(y, x); the function exists in part_000 only
DoCmpChunk(x, y) ==
    /\ pc = "idle"
    /\ impl = "part_000"
    /\ pc' = "chunked"
    /\ ca' = x
    /\ cb' = y
    /\ cab' = cmpChunk(x, y)
    /\ cba' = cmpChunk(y, x)
    /\ UNCHANGED <<impl, input, out, rendered, reparsed, a, b, ab, ba, eq,
                   tags, sorted, argPre, argBm, made>>

\* sort.Sort(BySemver(ts))
DoSort(ts) ==
    /\ pc = "idle"
    /\ pc' = "sorted"
    /\ tags' = ts
    /\ sorted' = SortBySemver(impl, ts)
    /\ UNCHANGED <<impl, input, out, rendered, reparsed, a, b, ab, ba, eq,
                   ca, cb, cab, cba, argPre, argBm, made>>

\* x, _ := Parse(s); y, _ := Parse(t); x.Less(y), y.Less(x) and x.Equal(y),
\* for strings Parse returns a tag for
DoParseCompare(s, t) ==
    LET x == Parse(s)
        y == Parse(t)
    IN  /\ pc = "idle"
        /\ ~x.panic
        /\ ~y.panic
        /\ x.val.ok
        /\ y.val.ok
        /\ pc' = "parsecompared"
        /\ a' = x.val.tag
        /\ b' = y.val.tag
        /\ ab' = TagLess(impl, x.val.tag, y.val.tag)
        /\ ba' = TagLess(impl, y.val.tag, x.val.tag)
        /\ eq' = Equal(x.val.tag, y.val.tag)
        /\ UNCHANGED <<impl, input, out, rendered, reparsed, ca, cb, cab, cba,
                       tags, sorted, argPre, argBm, made>>

\* New2(1, 2, 3, p)
DoNew2(p) ==
    /\ pc = "idle"
    /\ pc' = "made2"
    /\ argPre' = p
    /\ argBm' = <<>>
    /\ made' = New2(1, 2, 3, p)
    /\ UNCHANGED <<impl, input, out, rendered, reparsed, a, b, ab, ba, eq,
                   ca, cb, cab, cba, tags, sorted>>

\* New3(1, 2, 3, p, m)
DoNew3(p, m) ==
    /\ pc = "idle"
    /\ pc' = "made3"
    /\ argPre' = p
    /\ argBm' = m
    /\ made' = New3(1, 2, 3, p, m)
    /\ UNCHANGED <<impl, input, out, rendered, reparsed, a, b, ab, ba, eq,
                   ca, cb, cab, cba, tags, sorted>>

\* New4(1, 2, 3, m)
DoNew4(m) ==
    /\ pc = "idle"
    /\ pc' = "made4"
    /\ argPre' = <<>>
    /\ argBm' = m
    /\ made' = New4(1, 2, 3, m)
    /\ UNCHANGED <<impl, input, out, rendered, reparsed, a, b, ab, ba, eq,
                   ca, cb, cab, cba, tags, sorted>>

\* the caller drops its results
Reset ==
    /\ pc # "idle"
    /\ pc' = "idle"
    /\ input' = <<>>
    /\ out' = NoParse
    /\ rendered' = <<>>
    /\ reparsed' = NoParse
    /\ a' = empty
    /\ b' = empty
    /\ ab' = Ret(FALSE)
    /\ ba' = Ret(FALSE)
    /\ eq' = TRUE
    /\ ca' = <<>>
    /\ cb' = <<>>
    /\ cab' = Ret(0)
    /\ cba' = Ret(0)
    /\ tags' = <<>>
    /\ sorted' = Ret(<<>>)
    /\ argPre' = <<>>
    /\ argBm' = <<>>
    /\ made' = empty
    /\ UNCHANGED impl

ParseStep ==
    pc = "idle" /\ \E s \in ParseInputs : DoParse(s)

CompareStep ==
    pc = "idle" /\ \E x \in TagSample, y \in TagSampleBm : DoCompare(x, y)

CmpChunkStep ==
    pc = "idle" /\ \E x \in IdentSample, y \in IdentSample : DoCmpChunk(x, y)

SortStep ==
    pc = "idle" /\ \E ts \in SortInputs : DoSort(ts)

\* a comparison of two tags of the worked example
ChainCompareStep ==
    pc = "idle" /\ \E i \in 1..Len(Chain), j \in 1..Len(Chain) :
        DoCompare(ChainTags[i], ChainTags[j])

\* a sort of one permutation of the tags of the worked example
ChainSortStep ==
    pc = "idle" /\ \E perm \in Permutations(1..Len(Chain)) :
        DoSort([k \in 1..Len(Chain) |-> ChainTags[perm[k]]])

ParseCompareStep ==
    pc = "idle" /\ \E s \in OrderInputs, t \in OrderInputs : DoParseCompare(s, t)

New2Step ==
    pc = "idle" /\ \E p \in CtorArgs : DoNew2(p)

New3Step ==
    pc = "idle" /\ \E p \in CtorArgs, m \in CtorArgs : DoNew3(p, m)

New4Step ==
    pc = "idle" /\ \E m \in CtorArgs : DoNew4(m)

Next ==
    \/ ParseStep
    \/ DoRender
    \/ CompareStep
    \/ CmpChunkStep
    \/ SortStep
    \/ ChainCompareStep
    \/ ChainSortStep
    \/ ParseCompareStep
    \/ New2Step
    \/ New3Step
    \/ New4Step
    \/ Reset

Spec == Init /\ [][Next]_vars

\* Parse and String only
NextParse ==
    \/ ParseStep
    \/ DoRender
    \/ Reset

InitParse == Init /\ impl = "part_000"

SpecParse == InitParse /\ [][NextParse]_vars

\* Less, Equal and cmpChunk only
NextOrder ==
    \/ CompareStep
    \/ CmpChunkStep
    \/ Reset

SpecOrder == Init /\ [][NextOrder]_vars

\* sort.Sort only
NextSort ==
    \/ SortStep
    \/ Reset

SpecSort == Init /\ [][NextSort]_vars

\* the worked example of the pre-release ordering only
NextChain ==
    \/ ChainCompareStep
    \/ ChainSortStep
    \/ Reset

SpecChain == Init /\ [][NextChain]_vars

\* Tag.Less on constructed tags and on tags returned by Parse
NextLess ==
    \/ CompareStep
    \/ ParseCompareStep
    \/ Reset

SpecLess == Init /\ [][NextLess]_vars

\* Tag.Less on tags returned by Parse only
NextParsedLess ==
    \/ ParseCompareStep
    \/ Reset

SpecParsedLess == Init /\ [][NextParsedLess]_vars

\* the constructors only
NextNew ==
    \/ New2Step
    \/ New3Step
    \/ New4Step
    \/ Reset

SpecNew == Init /\ [][NextNew]_vars

---------------------------------------------------------------------------
(* Vocabulary of the properties *)

\* the pre-release sub-comparator of the compiled revision
PreSub(im, x, y) ==
    IF im = "tag.go" THEN Ret(prAlessB(x, y)) ELSE cmpPreRelease(x, y)

SameVersion(t, o) ==
    t.Major = o.Major /\ t.Minor = o.Minor /\ t.Patch = o.Patch

\* position of a tag in the worked example, 0 when it is not one of its tags
ChainPos(t) ==
    IF \E k \in 1..Len(Chain) : ChainTags[k] = t
        THEN CHOOSE k \in 1..Len(Chain) : ChainTags[k] = t
    ELSE 0

\* s and t hold the same elements the same number of times
IsPermutation(s, t) ==
    /\ Len(s) = Len(t)
    /\ \A x \in {s[k] : k \in 1..Len(s)} \cup {t[k] : k \in 1..Len(t)} :
          Cardinality({k \in 1..Len(s) : s[k] = x})
              = Cardinality({k \in 1..Len(t) : t[k] = x})

\* comparison of two digit strings as integers of any size: -1, 0 or 1
IntCmp(x, y) ==
    LET p == StripZeros(x)
        q == StripZeros(y)
    IN  IF Len(p) < Len(q) THEN -1
        ELSE IF Len(p) > Len(q) THEN 1
        ELSE IF StrLess(p, q) THEN -1
        ELSE IF StrLess(q, p) THEN 1
        ELSE 0

AllDigits(x) == x # <<>> /\ \A k \in 1..Len(x) : x[k] \in ClassDigit

\* "0", or a digit string without a leading zero
PlainNumber(x) == AllDigits(x) /\ (x = <<"0">> \/ x[1] # "0")

\* a pre-release identifier: a plain number, or alphanumerics and hyphens
\* with at least one non-digit
PreIdent(x) ==
    /\ x # <<>>
    /\ \A k \in 1..Len(x) : x[k] \in ClassAlnumDash
    /\ AllDigits(x) => PlainNumber(x)

\* a build-metadata identifier: alphanumerics and hyphens
BmIdent(x) == x # <<>> /\ \A k \in 1..Len(x) : x[k] \in ClassAlnumDash

\* one or more dot-separated identifiers, each satisfying P
DotSeparated(x, P(_)) ==
    LET parts == Split(x, ".") IN \A k \in 1..Len(parts) : P(parts[k])

\* the grammar in words: 'v', major.minor.patch, then optionally '-' and a
\* pre-release, then optionally '+' and build metadata, and nothing else
WellFormed(s) ==
    \E p \in 1..(Len(s) + 1), q \in 1..(Len(s) + 1) :
        /\ p <= q
        /\ LET core == SubSeq(s, 1, p - 1)
               pre == SubSeq(s, p, q - 1)
               bm == SubSeq(s, q, Len(s))
           IN  /\ core # <<>>
               /\ Head(core) = "v"
               /\ Len(Split(Tail(core), ".")) = 3
               /\ DotSeparated(Tail(core), PlainNumber)
               /\ pre # <<>> => (Head(pre) = "-" /\ DotSeparated(Tail(pre), PreIdent))
               /\ bm # <<>> => (Head(bm) = "+" /\ DotSeparated(Tail(bm), BmIdent))

\* every digit string of the input's major.minor.patch fits the host int
FitsInt(s) ==
    \A k \in 1..Len(s) : \A m \in k..Len(s) :
        AllDigits(SubSeq(s, k, m)) => ~OutOfRange(SubSeq(s, k, m))

---------------------------------------------------------------------------
(* Properties *)

\* C1: Tag.Less is the lexicographic comparison of (Major, Minor, Patch,
\* PreRelease): differing majors decide, else differing minors, else differing
\* patches, and only with all three equal the pre-release sub-comparator.
C1_LessIsLexicographic ==
    pc = "compared" =>
        /\ a.Major # b.Major => ab = Ret(a.Major < b.Major)
        /\ (a.Major = b.Major /\ a.Minor # b.Minor) => ab = Ret(a.Minor < b.Minor)
        /\ (a.Major = b.Major /\ a.Minor = b.Minor /\ a.Patch # b.Patch)
              => ab = Ret(a.Patch < b.Patch)
        /\ SameVersion(a, b) => ab = PreSub(impl, a.PreRelease, b.PreRelease)

\* C1 for the revision of src/unnamed/part_000 alone
C1_LessIsLexicographic_part_000 ==
    impl = "part_000" => C1_LessIsLexicographic

\* C2: Tag.Less is antisymmetric: a.Less(b) and b.Less(a) are never both true,
\* a = b and release-against-pre-release pairs included.
C2_LessAntisymmetric ==
    pc = "compared" => ~(ab = Ret(TRUE) /\ ba = Ret(TRUE))

\* C2 for the revision of src/unnamed/part_000 alone
C2_LessAntisymmetric_part_000 ==
    impl = "part_000" => C2_LessAntisymmetric

\* C3: Tag.Less is transitive on syntactically valid tags: a.Less(b) and
\* b.Less(c) imply a.Less(c).
C3_LessTransitive ==
    (pc = "compared" /\ ab = Ret(TRUE)) =>
        \A c \in TagSample :
            TagLess(impl, b, c) = Ret(TRUE) => TagLess(impl, a, c) = Ret(TRUE)

\* C3 for the revision of src/unnamed/part_000 alone
C3_LessTransitive_part_000 ==
    impl = "part_000" => C3_LessTransitive

\* C4: with equal major.minor.patch the comparison realizes alpha < alpha.1 <
\* alpha.beta < beta < beta.2 < beta.11 < rc.1 < release: earlier is Less than
\* later and never the reverse, and sorting any permutation of the eight tags
\* yields exactly this order.
C4_PreReleaseChain ==
    /\ (pc = "compared" /\ ChainPos(a) > 0 /\ ChainPos(b) > ChainPos(a))
          => (ab = Ret(TRUE) /\ ba = Ret(FALSE))
    /\ (pc = "sorted" /\ IsPermutation(tags, ChainTags))
          => sorted = Ret(ChainTags)

\* C4 for the revision of src/unnamed/part_000 alone
C4_PreReleaseChain_part_000 ==
    impl = "part_000" => C4_PreReleaseChain

\* C5: cmpChunk returns -1, 0 or 1: two all-digit identifiers compare as
\* integers, two others lexically by byte order, an all-digit one is below any
\* other, and cmpChunk(a, b) = -cmpChunk(b, a).
C5_CmpChunkRule ==
    pc = "chunked" =>
        /\ ~cab.panic
        /\ cab.val \in {-1, 0, 1}
        /\ (AllDigits(ca) /\ AllDigits(cb)) => cab.val = IntCmp(ca, cb)
        /\ (~AllDigits(ca) /\ ~AllDigits(cb)) =>
              cab.val = (IF StrLess(ca, cb) THEN -1 ELSE IF ca = cb THEN 0 ELSE 1)
        /\ (AllDigits(ca) /\ ~AllDigits(cb)) => cab.val = -1
        /\ (~AllDigits(ca) /\ AllDigits(cb)) => cab.val = 1
        /\ ~cba.panic
        /\ cab.val = -cba.val

\* C5 for identifiers whose digit strings fit the host int
C5_CmpChunkRule_inRange ==
    (~OutOfRange(ca) /\ ~OutOfRange(cb)) => C5_CmpChunkRule

\* C6: sort.Sort through BySemver yields a permutation of the input in
\* ascending precedence: no later element is Less than an earlier one.
C6_SortAscending ==
    pc = "sorted" =>
        /\ ~sorted.panic
        /\ IsPermutation(sorted.val, tags)
        /\ \A i \in 1..Len(sorted.val) : \A j \in (i + 1)..Len(sorted.val) :
              TagLess(impl, sorted.val[j], sorted.val[i]) = Ret(FALSE)

\* C6 for the revision of src/unnamed/part_000 alone
C6_SortAscending_part_000 ==
    impl = "part_000" => C6_SortAscending

\* C7: tags equal in Major, Minor, Patch and PreRelease and different in
\* BuildMetadata: neither is Less than the other, and they are not Equal.
C7_BuildMetadataIgnoredInOrder ==
    (/\ pc = "compared"
     /\ SameVersion(a, b)
     /\ a.PreRelease = b.PreRelease
     /\ a.BuildMetadata # b.BuildMetadata)
        => (ab = Ret(FALSE) /\ ba = Ret(FALSE) /\ eq = FALSE)

\* C7 for tags whose pre-release holds no identifier beyond the host int
C7_BuildMetadataIgnoredInOrder_inRange ==
    FitsInt(a.PreRelease) => C7_BuildMetadataIgnoredInOrder

\* C8: Parse returns ok = true exactly for the strings of the grammar, and the
\* zero Tag with ok = false for every other string.
C8_ParseAcceptsExactlyGrammar ==
    pc = "parsed" =>
        /\ ~out.panic
        /\ out.val.ok <=> WellFormed(input)
        /\ ~WellFormed(input) => out = Ret(ParseResult(empty, FALSE))

\* C8 for inputs whose digit strings fit the host int
C8_ParseAcceptsExactlyGrammar_inRange ==
    FitsInt(input) => C8_ParseAcceptsExactlyGrammar

\* C9: round trip: whenever Parse(s) returns (t, true), Parse(t.String())
\* returns (t', true) with t'.Equal(t); the pre-release (hyphens inside it
\* included) and the build metadata come back in the same fields.
C9_RoundTrip ==
    pc = "rendered" =>
        /\ ~reparsed.panic
        /\ reparsed.val.ok
        /\ Equal(reparsed.val.tag, out.val.tag)
        /\ reparsed.val.tag.PreRelease = out.val.tag.PreRelease
        /\ reparsed.val.tag.BuildMetadata = out.val.tag.BuildMetadata

\* C9 witness: a parsed tag whose pre-release contains a hyphen and which
\* carries build metadata has been rendered and parsed again
C9_RoundTrip_witness ==
    /\ pc = "rendered"
    /\ out.val.tag.PreRelease = <<"0",".","2","0","1","9","0","2","2","7","0","0","0","0","5","1","-","2","7","9","3","6","f","6","d","9","0","f","9">>
    /\ out.val.tag.BuildMetadata # <<>>
    /\ reparsed.val.ok

\* C10: Parse never panics: it returns a (Tag, bool) for every input.
C10_ParseNeverPanics ==
    pc = "parsed" => ~out.panic

\* a tag whose pre-release is empty or matches the grammar
ValidPre(t) ==
    t.PreRelease = <<>> \/ DotSeparated(t.PreRelease, PreIdent)

\* every all-digit identifier of the pre-release fits the host int
PreFitsInt(t) ==
    LET parts == Split(t.PreRelease, ".") IN
        \A k \in 1..Len(parts) : AllDigits(parts[k]) => ~OutOfRange(parts[k])

\* C11: the comparator never fails: for every pair of syntactically valid tags,
\* returned by Parse or constructed by hand with a pre-release of the grammar
\* (all-digit identifiers of any length), a.Less(b) and b.Less(a) return a
\* boolean and do not panic.
C11_LessNeverPanics ==
    (pc \in {"compared", "parsecompared"} /\ ValidPre(a) /\ ValidPre(b)) =>
        /\ ~ab.panic /\ ab.val \in BOOLEAN
        /\ ~ba.panic /\ ba.val \in BOOLEAN

\* C11 when every all-digit identifier fits the host int
C11_LessNeverPanics_inRange ==
    (PreFitsInt(a) /\ PreFitsInt(b)) => C11_LessNeverPanics

\* s begins with the bytes of p
HasPrefix(s, p) == Len(s) >= Len(p) /\ SubSeq(s, 1, Len(p)) = p

\* s without its first n bytes
Drop(s, n) == SubSeq(s, n + 1, Len(s))

\* s without its first byte when that byte is '-' or '+', else s
DropOneSeparator(s) ==
    IF HasPrefix(s, <<"-">>) \/ HasPrefix(s, <<"+">>) THEN Drop(s, 1) ELSE s

\* s without a leading "-+", else without a leading '-' or '+', else s
DropDashThenPlus(s) ==
    IF HasPrefix(s, <<"-","+">>) THEN Drop(s, 2)
    ELSE IF HasPrefix(s, <<"-">>) \/ HasPrefix(s, <<"+">>) THEN Drop(s, 1)
    ELSE s

\* C12: New2, New3 and New4 store each pre-release / build-metadata argument
\* without its first character when that character is '-' or '+', and
\* unchanged otherwise: at most one character is removed.
C12_RemovesExactlyOneSeparator ==
    pc \in {"made2", "made3", "made4"} =>
        /\ made.PreRelease = DropOneSeparator(argPre)
        /\ made.BuildMetadata = DropOneSeparator(argBm)

\* C12 amended: the constructors remove a leading '-' when there is one and
\* then a leading '+' when there is one: an argument that begins with "-+" is
\* stored without its first two characters, any other argument that begins
\* with '-' or '+' without its first character, and every other argument
\* unchanged; the numbers are stored as given.
C12_RemovesDashThenPlus ==
    pc \in {"made2", "made3", "made4"} =>
        /\ made.PreRelease = DropDashThenPlus(argPre)
        /\ made.BuildMetadata = DropDashThenPlus(argBm)
        /\ made.Major = 1 /\ made.Minor = 2 /\ made.Patch = 3

\* C12 witness: New3 was handed "-+x" and "--x" and stored "x" and "-x"
C12_RemovesDashThenPlus_witness ==
    /\ pc = "made3"
    /\ argPre = <<"-","+","x">>
    /\ argBm = <<"-","-","x">>
    /\ made.PreRelease = <<"x">>
    /\ made.BuildMetadata = <<"-","x">>

\* C13: totality on the precedence key: for two tags returned by Parse that
\* differ in Major, Minor, Patch or PreRelease, exactly one of a.Less(b) and
\* b.Less(a) is true; neither precedes the other only when the two differ at
\* most in BuildMetadata.
C13_TotalOnPrecedenceKey ==
    pc = "parsecompared" =>
        /\ (~SameVersion(a, b) \/ a.PreRelease # b.PreRelease) =>
              (ab = Ret(TRUE)) # (ba = Ret(TRUE))
        /\ (ab # Ret(TRUE) /\ ba # Ret(TRUE)) =>
              (SameVersion(a, b) /\ a.PreRelease = b.PreRelease)

\* C13 for Tag.Less of src/unnamed/part_000 when every all-digit identifier
\* fits the host int
C13_TotalOnPrecedenceKey_part_000_inRange ==
    (impl = "part_000" /\ PreFitsInt(a) /\ PreFitsInt(b)) => C13_TotalOnPrecedenceKey

\* C13 for Tag.Less of src/unnamed/part_000
C13_TotalOnPrecedenceKey_part_000 ==
    impl = "part_000" => C13_TotalOnPrecedenceKey

\* C13 for Tag.Less of src/tag.go
C13_TotalOnPrecedenceKey_tag_go ==
    impl = "tag.go" => C13_TotalOnPrecedenceKey

=============================================================================
